---- MODULE Spec2Model ----
(***************************************************************************)
(* Session-paired streaming relay of src/main.py.                          *)
(*                                                                         *)
(* The program is an asyncio application: every websocket connection is    *)
(* served by one task, and tasks interleave only at `await`.  One action   *)
(* of this module is the code a task runs from the moment it resumes from  *)
(* one await up to (and including the call of) the next awaited operation. *)
(* Consecutive awaits between which the task changes nothing but its own   *)
(* position (the request of a completion and the chunks of its stream      *)
(* that are only accumulated) are one suspension.                          *)
(***************************************************************************)
EXTENDS Integers, Sequences, FiniteSets, TLC

\* ------------------------------------------------------------------ bounds
MaxCalls == 2      \* initiate_call requests that create a session
MaxClock == 1      \* int(time.time()) ranges over 0..MaxClock
MaxConns == 2      \* websocket connections accepted over the run
MaxLegConns == 3   \* the same, over a run without faults (SpecLegs)
MaxPrompts == 2    \* prompt events received over the run
MaxChunks == 2     \* tokens one completion stream delivers at most
MaxEvents == 7     \* requests, connections, messages and faults over the run

\* ------------------------------------------------------------------ values
NoConn == 0        \* Python None in a websocket field
NoSession == 0     \* key absent from translation_sessions
NoContent == 0     \* chunk.choices[0].delta.content is None
NoCallSid == "None"  \* Python None in target_call_sid

Roles == {"source", "target"}

\* message["callSid"] of a setup event
CallSids == {"CA1"}

\* What twilio_client.calls.create does for the call to the source and to
\* the target number: it raises, or returns a call with this sid.
CallCreateFailed == "error"
SourceCallOutcomes == {CallCreateFailed, "CAout1"}
TargetCallOutcomes == {CallCreateFailed, "CAout2"}

\* message["type"] of the events that are neither setup nor prompt
OtherKinds == {"info", "interrupt", "error", "dtmf"}

\* What the n-th chunk of a completion stream may carry: no content, or a
\* token.  Tokens are named by their position, so the tokens of one stream
\* are pairwise distinct.
ChunkContents(n) == {NoContent, n}

\* Form fields of /initiate-call.  Phone numbers are sequences of characters.
FromNumbers == {<<"+", "1">>, <<"1">>, <<>>}
ToNumbers == {<<"+", "2">>}
LanguagePairs == {<<"en-US", "ar-SA">>, <<"", "ar-SA">>, <<"en-US", "">>}
\* os.getenv("TWILIO_PHONE_NUMBER"): unset or set
TwilioNumbers == {<<>>, <<"+", "9">>}

VARIABLES
    twilio_number,  \* os.getenv("TWILIO_PHONE_NUMBER"), fixed for the run
    capacity,       \* connections the server accepts, fixed for the run
    clock,          \* the last value int(time.time()) returned
    translation_sessions,  \* session_id -> index into sessions, or NoSession
    sessions,       \* the TranslationSession objects ever constructed
    conn,           \* per connection: endpoint role and session_id of the path
    ws,             \* per connection: "open", "peer_closed", "closed"
    pc,             \* per connection: where its endpoint task is suspended
    loc,            \* per connection: the task's local variables
    outbox,         \* per connection: the messages send_json delivered on it
    closeCalls,     \* per connection: calls of websocket.close()
    nEvents,        \* external events so far
    utts,           \* per prompt event: what was observed about it
    forms,          \* per session: the languages its request gave
    attached,       \* per connection: the session its setup attached it to
    owed,           \* target closings that met a source prompt in flight
    nOther,         \* info, interrupt, error and unknown events dispatched
    setups          \* per connection: the callSid of every setup it handled

observed == <<utts, forms, attached, owed, nOther, setups>>

\* What the environment fixes for a run.
config == <<twilio_number, capacity>>

vars == <<config, clock, translation_sessions, sessions, conn, ws, pc,
          loc, outbox, closeCalls, nEvents, observed>>

\* ------------------------------------------------------------- session ids
\* str.replace('+', '')
strip_plus(number) == SelectSeq(number, LAMBDA ch : ch # "+")

\* f"session_{int(time.time())}_{from}_{to}"
make_session_id(now, from_number, to_number) ==
    <<now, strip_plus(from_number), strip_plus(to_number)>>

SessionIds ==
    { make_session_id(t, f, g) : t \in 0..MaxClock,
                                 f \in FromNumbers \ {<<>>},
                                 g \in ToNumbers \ {<<>>} }

\* TranslationSession.__init__ followed by the assignments of initiate_call
TranslationSession(session_id, source_language, target_language) ==
    [ session_id |-> session_id,
      source_call_sid |-> "",
      target_call_sid |-> NoCallSid,
      source_websocket |-> NoConn,
      target_websocket |-> NoConn,
      source_language |-> source_language,
      target_language |-> target_language ]

\* A validation that accepts a form as soon as one field is filled in.
all_required_any(from_number, to_number, source_language, target_language) ==
    \/ from_number # <<>>
    \/ to_number # <<>>
    \/ source_language # ""
    \/ target_language # ""

\* all([from_number, to_number, source_language, target_language])
all_required(from_number, to_number, source_language, target_language) ==
    /\ from_number # <<>>
    /\ to_number # <<>>
    /\ source_language # ""
    /\ target_language # ""

\* ---------------------------------------------------------------- messages
Msg(type, token, last, source, utt) ==
    [type |-> type, token |-> token, last |-> last, source |-> source, utt |-> utt]

\* The token of a message is a sequence of tokens: <<>> is "".  The field utt
\* names the prompt event a message was produced for (0: none).
end_message == Msg("end", <<>>, FALSE, "", 0)
wait_event == Msg("play", <<>>, FALSE, "wait_url", 0)
music_event(u) == Msg("play", <<>>, FALSE, "music_url", u)
token_event(token, u) == Msg("text", <<token>>, FALSE, "", u)
final_event(u) == Msg("text", <<>>, TRUE, "", u)
\* The text the ready message carries is what the stream's tokens add up to;
\* it is kept as the language it was translated to.
ready_message(language) == Msg("text", <<language>>, TRUE, "", 0)

\* ----------------------------------------------------------- shared state
\* The part of the state that send_json, close and cleanup_session change.
World ==
    [s |-> sessions, r |-> translation_sessions, w |-> ws, o |-> outbox,
     k |-> closeCalls]

Own(role) == IF role = "source" THEN "source_websocket" ELSE "target_websocket"
Peer(role) == IF role = "source" THEN "target_websocket" ELSE "source_websocket"

Idle == [sess |-> NoSession, utt |-> 0]

\* await h.send_json(m): raises on None and on a connection that is not open
send_json(W, h, m) ==
    IF h # NoConn /\ W.w[h] = "open"
    THEN [ok |-> TRUE, W |-> [W EXCEPT !.o[h] = Append(@, m)]]
    ELSE [ok |-> FALSE, W |-> W]

\* await h.close(): raises on None and on a connection that is not open
close(W, h) ==
    IF h = NoConn THEN [ok |-> FALSE, W |-> W]
    ELSE IF W.w[h] = "open"
         THEN [ok |-> TRUE, W |-> [W EXCEPT !.w[h] = "closed", !.k[h] = @ + 1]]
         ELSE [ok |-> FALSE, W |-> [W EXCEPT !.k[h] = @ + 1]]

\* --------------------------------------------------------- cleanup_session
Cleaning(o) == [Idle EXCEPT !.sess = o]

\* translation_sessions.pop(session_id, None)
cleanup_pop(W, sid, o) ==
    [W |-> [W EXCEPT !.r[sid] = NoSession], pc |-> "done", loc |-> Cleaning(o)]

\* if session.target_websocket: try: await send_json(end_message) ...
cleanup_target(W, sid, o) ==
    IF W.s[o].target_websocket # NoConn
    THEN LET r == send_json(W, W.s[o].target_websocket, end_message) IN
         IF r.ok
         THEN [W |-> r.W, pc |-> "cl_tgt_sent", loc |-> Cleaning(o)]
         ELSE cleanup_pop([r.W EXCEPT !.s[o].target_websocket = NoConn], sid, o)
    ELSE cleanup_pop(W, sid, o)

\* if session.source_websocket: try: await send_json(end_message) ...
cleanup_source(W, sid, o) ==
    IF W.s[o].source_websocket # NoConn
    THEN LET r == send_json(W, W.s[o].source_websocket, end_message) IN
         IF r.ok
         THEN [W |-> r.W, pc |-> "cl_src_sent", loc |-> Cleaning(o)]
         ELSE cleanup_target([r.W EXCEPT !.s[o].source_websocket = NoConn], sid, o)
    ELSE cleanup_target(W, sid, o)

\* cleanup_session(session_id) up to its first suspension
cleanup_session(W, sid) ==
    IF W.r[sid] = NoSession
    THEN [W |-> W, pc |-> "done", loc |-> Idle]
    ELSE cleanup_source(W, sid, W.r[sid])

\* cleanup_session resumed from the await it is suspended in
cleanup_resume(W, sid, o, at) ==
    CASE at = "cl_src_sent" ->
            LET r == close(W, W.s[o].source_websocket) IN
            IF r.ok
            THEN [W |-> r.W, pc |-> "cl_src_closed", loc |-> Cleaning(o)]
            ELSE cleanup_target([r.W EXCEPT !.s[o].source_websocket = NoConn], sid, o)
      [] at = "cl_src_closed" ->
            cleanup_target([W EXCEPT !.s[o].source_websocket = NoConn], sid, o)
      [] at = "cl_tgt_sent" ->
            LET r == close(W, W.s[o].target_websocket) IN
            IF r.ok
            THEN [W |-> r.W, pc |-> "cl_tgt_closed", loc |-> Cleaning(o)]
            ELSE cleanup_pop([r.W EXCEPT !.s[o].target_websocket = NoConn], sid, o)
      [] at = "cl_tgt_closed" ->
            cleanup_pop([W EXCEPT !.s[o].target_websocket = NoConn], sid, o)

CleanupPcs == {"cl_src_sent", "cl_src_closed", "cl_tgt_sent", "cl_tgt_closed"}

\* except Exception / finally: await cleanup_session(session_id)
Raise(W, c) == cleanup_session(W, conn[c].sid)

\* ------------------------------------ check_session_readiness_and_notify
\* if session.target_websocket: await session.source_websocket.send_json(...)
gate_tail(W, c, o) ==
    IF W.s[o].target_websocket # NoConn
    THEN LET r == send_json(W, W.s[o].source_websocket, wait_event) IN
         IF r.ok
         THEN [W |-> r.W, pc |-> "recv", loc |-> Idle]
         ELSE Raise(r.W, c)
    ELSE [W |-> W, pc |-> "recv", loc |-> Idle]

check_session_readiness_and_notify(W, c, o) ==
    IF ~(W.s[o].source_websocket # NoConn /\ W.s[o].target_websocket # NoConn)
    THEN IF W.s[o].source_websocket # NoConn
         THEN LET r == send_json(W, W.s[o].source_websocket, wait_event) IN
              IF r.ok
              THEN [W |-> r.W, pc |-> "gate_wait", loc |-> [Idle EXCEPT !.sess = o]]
              ELSE Raise(r.W, c)
         ELSE gate_tail(W, c, o)
    ELSE [W |-> W, pc |-> "ready_src", loc |-> [Idle EXCEPT !.sess = o]]

\* Variants that look at the leg the prompt came from instead of its
\* counterpart; the properties below tell them from the code's.
forward_handle_own(S, o, role) == S[o][Own(role)]
counterpart_attached_own(S, o, role) == S[o][Own(role)] # NoConn

\* await session.target_websocket.send_json(event): the handle a fragment of
\* a prompt received on `role` is forwarded to   (source endpoint; mirrored)
forward_handle(S, o, role) == S[o][Peer(role)]

\* if not session.target_websocket: continue   (source endpoint; mirrored)
counterpart_attached(S, o, role) == S[o][Peer(role)] # NoConn

\* ------------------------------------------------------------------- steps
Apply(c, R) ==
    /\ sessions' = R.W.s
    /\ translation_sessions' = R.W.r
    /\ ws' = R.W.w
    /\ outbox' = R.W.o
    /\ closeCalls' = R.W.k
    /\ pc' = [pc EXCEPT ![c] = R.pc]
    /\ loc' = [loc EXCEPT ![c] = R.loc]

Conns == 1..Len(conn)

\* An external event: a request, a connection, a message or a fault.
External ==
    /\ nEvents < MaxEvents
    /\ nEvents' = nEvents + 1

\* No session, no connection, nothing received yet.
Empty ==
    /\ clock = 0
    /\ translation_sessions = [sid \in SessionIds |-> NoSession]
    /\ sessions = <<>>
    /\ conn = <<>>
    /\ ws = <<>>
    /\ pc = <<>>
    /\ loc = <<>>
    /\ outbox = <<>>
    /\ closeCalls = <<>>
    /\ nEvents = 0
    /\ utts = <<>>
    /\ forms = <<>>
    /\ attached = <<>>
    /\ owed = {}
    /\ nOther = 0
    /\ setups = <<>>

Init ==
    /\ twilio_number \in TwilioNumbers
    /\ capacity = MaxConns
    /\ Empty

\* session_id in translation_sessions, for a registry R
in_registry(R, session_id) ==
    session_id \in DOMAIN R /\ R[session_id] # NoSession

\* create_outbound_source_call: session.source_call_sid = call.sid, unless
\* the session is not registered or calls.create raised (caught and logged).
\* S is the session objects, R the registry.
create_outbound_source_call(S, R, session_id, outcome) ==
    IF ~in_registry(R, session_id) \/ outcome = CallCreateFailed
    THEN S
    ELSE [S EXCEPT ![R[session_id]].source_call_sid = outcome]

\* create_outbound_target_call: session.target_call_sid = call.sid, likewise
create_outbound_target_call(S, R, session_id, outcome) ==
    IF ~in_registry(R, session_id) \/ outcome = CallCreateFailed
    THEN S
    ELSE [S EXCEPT ![R[session_id]].target_call_sid = outcome]

\* POST /initiate-call; `now` is what int(time.time()) returns, source_call
\* and target_call what calls.create does for the two outbound calls, once
\* they are made.  The two create_outbound_* coroutines never suspend, so
\* the request runs from the form to its response in one step.
InitiateCall(now, from_number, to_number, source_language, target_language) ==
    /\ Len(sessions) < MaxCalls
    /\ now >= clock
    /\ IF ~all_required(from_number, to_number, source_language, target_language)
       THEN UNCHANGED vars                               \* 400
       ELSE IF twilio_number = <<>>
       THEN UNCHANGED vars                               \* 500
       ELSE \E source_call \in SourceCallOutcomes,
               target_call \in TargetCallOutcomes :
            LET session_id == make_session_id(now, from_number, to_number)
                session == TranslationSession(session_id, source_language,
                                              target_language)
                registry == [translation_sessions EXCEPT
                                 ![session_id] = Len(sessions) + 1]
            IN /\ External
               /\ sessions' =
                      create_outbound_target_call(
                          create_outbound_source_call(
                              Append(sessions, session), registry, session_id,
                              source_call),
                          registry, session_id, target_call)
               /\ translation_sessions' = registry
               /\ clock' = now
               /\ forms' = Append(forms, <<source_language, target_language>>)
               /\ UNCHANGED <<config, conn, ws, pc, loc, outbox, closeCalls,
                              utts, attached, owed, nOther, setups>>

\* a client connects to /ws/{role}/{session_id}: await websocket.accept()
Connect(role, sid) ==
    /\ Len(conn) < capacity
    /\ External
    /\ conn' = Append(conn, [role |-> role, sid |-> sid])
    /\ ws' = Append(ws, "open")
    /\ pc' = Append(pc, "recv")
    /\ loc' = Append(loc, Idle)
    /\ outbox' = Append(outbox, <<>>)
    /\ closeCalls' = Append(closeCalls, 0)
    /\ attached' = Append(attached, NoSession)
    /\ setups' = Append(setups, <<>>)
    /\ UNCHANGED <<config, clock, translation_sessions, sessions, utts,
                   forms, owed, nOther>>

\* the remote end of a connection goes away
PeerClose(c) ==
    /\ ws[c] = "open"
    /\ pc[c] # "done"
    /\ External
    /\ ws' = [ws EXCEPT ![c] = "peer_closed"]
    /\ owed' = owed \cup
          { [src |-> sessions[utts[u].sess].source_websocket, tgt |-> c,
             sess |-> utts[u].sess, utt |-> u,
             sent |-> Len(SelectSeq(outbox[c], LAMBDA m : m.utt = u))] :
              u \in { v \in 1..Len(utts) :
                        /\ utts[v].status = "flight"
                        /\ conn[utts[v].conn].role = "source"
                        /\ sessions[utts[v].sess].target_websocket = c
                        /\ sessions[utts[v].sess].source_websocket # NoConn } }
    /\ UNCHANGED <<config, clock, translation_sessions, sessions, conn,
                   pc, loc, outbox, closeCalls, utts, forms, attached, nOther,
                   setups>>

\* receive_text raises: the connection was closed by either end
RecvDisconnect(c) ==
    /\ pc[c] = "recv"
    /\ ws[c] # "open"
    /\ Apply(c, Raise(World, c))
    /\ UNCHANGED <<config, clock, conn, nEvents, observed>>

\* json.loads or message["type"] raises
RecvBad(c) ==
    /\ pc[c] = "recv"
    /\ ws[c] = "open"
    /\ External
    /\ Apply(c, Raise(World, c))
    /\ UNCHANGED <<config, clock, conn, observed>>

\* A variant handler: the event ends the task that got it.
dispatch_other_fatal(P, c, kind) == [P EXCEPT ![c] = "done"]

\* Another: an interrupt takes every task out of its translation loop.
dispatch_other_cancel(P, c, kind) ==
    IF kind = "interrupt"
    THEN [d \in DOMAIN P |-> IF P[d] = "prompt" THEN "recv" ELSE P[d]]
    ELSE P

\* if message["type"] == "info" / "interrupt" / "error": logging only, and
\* no branch at all for another type: where the tasks are (P) stays as it is
dispatch_other(P, c, kind) == P

\* The prompts in flight on the other connections of the session of c.
InFlightFor(c) ==
    { u \in 1..Len(utts) : /\ utts[u].status = "flight"
                           /\ utts[u].conn # c
                           /\ conn[utts[u].conn].sid = conn[c].sid }

\* message["type"] is "info", "interrupt", "error" or anything else
RecvOther(c, kind) ==
    /\ pc[c] = "recv"
    /\ ws[c] = "open"
    /\ External
    /\ pc' = dispatch_other(pc, c, kind)
    /\ nOther' = nOther + 1
    /\ utts' = [u \in 1..Len(utts) |->
                  IF kind = "interrupt" /\ u \in InFlightFor(c)
                  THEN [utts[u] EXCEPT !.interrupted = TRUE]
                  ELSE utts[u]]
    /\ UNCHANGED <<config, clock, translation_sessions, sessions, conn,
                   ws, loc, outbox, closeCalls, forms, attached, owed, setups>>

\* An interrupt arrives on a connection whose task is in its translation
\* loop: it waits in the transport until the loop's next receive_text, and
\* is then dispatched like any other.
InterruptQueued(c) ==
    /\ pc[c] = "prompt"
    /\ ws[c] = "open"
    /\ ~utts[loc[c].utt].interrupted
    /\ External
    /\ utts' = [utts EXCEPT ![loc[c].utt].interrupted = TRUE]
    /\ UNCHANGED <<config, clock, translation_sessions, sessions, conn,
                   ws, pc, loc, outbox, closeCalls, forms, attached, owed,
                   nOther, setups>>

\* session.source_websocket = websocket                    (source endpoint)
\* session.target_call_sid = call_sid; session.target_websocket = websocket
attach(W, o, role, c, call_sid) ==
    IF role = "source"
    THEN [W EXCEPT !.s[o].source_websocket = c]
    ELSE [W EXCEPT !.s[o].target_call_sid = call_sid,
                   !.s[o].target_websocket = c]

\* message["type"] == "setup"
RecvSetup(c, call_sid) ==
    /\ pc[c] = "recv"
    /\ ws[c] = "open"
    /\ External
    /\ LET sid == conn[c].sid
           o == translation_sessions[sid]
       IN IF o # NoSession
          THEN Apply(c, check_session_readiness_and_notify(
                           attach(World, o, conn[c].role, c, call_sid), c, o))
          ELSE Apply(c, [W |-> World, pc |-> "recv", loc |-> Idle])
    /\ setups' = [setups EXCEPT ![c] = Append(@, call_sid)]
    /\ attached' = IF translation_sessions[conn[c].sid] # NoSession
                   THEN [attached EXCEPT ![c] = translation_sessions[conn[c].sid]]
                   ELSE attached
    /\ UNCHANGED <<config, clock, conn, utts, forms, owed, nOther>>

\* check_session_readiness_and_notify resumes after the first wait_event
GateResume(c) ==
    /\ pc[c] = "gate_wait"
    /\ Apply(c, gate_tail(World, c, loc[c].sess))
    /\ UNCHANGED <<config, clock, conn, nEvents, observed>>

\* the text of a ready message is translated: it is sent, and the gate goes
\* on to the target's (lines 139-167)
ReadyTranslated(c) ==
    /\ pc[c] \in {"ready_src", "ready_tgt"}
    /\ LET o == loc[c].sess IN
       IF pc[c] = "ready_src"
       THEN LET r == send_json(World, sessions[o].source_websocket,
                               ready_message(sessions[o].source_language))
            IN IF r.ok
               THEN Apply(c, [W |-> r.W, pc |-> "ready_tgt", loc |-> loc[c]])
               ELSE Apply(c, Raise(r.W, c))
       ELSE LET r == send_json(World, sessions[o].target_websocket,
                               ready_message(sessions[o].target_language))
            IN IF r.ok
               THEN Apply(c, [W |-> r.W, pc |-> "recv", loc |-> Idle])
               ELSE Apply(c, Raise(r.W, c))
    /\ UNCHANGED <<config, clock, conn, nEvents, observed>>

\* cleanup_session resumes
CleanupStep(c) ==
    /\ pc[c] \in CleanupPcs
    /\ Apply(c, cleanup_resume(World, conn[c].sid, loc[c].sess, pc[c]))
    /\ UNCHANGED <<config, clock, conn, nEvents, observed>>

\* ------------------------------------------------- prompts and translation
Utterance(c, o, absent, invoked, status) ==
    [conn |-> c, sess |-> o, peerAbsent |-> absent, invoked |-> invoked,
     emitted |-> <<>>, status |-> status, interrupted |-> FALSE]

\* message["type"] == "prompt"
RecvPrompt(c) ==
    /\ pc[c] = "recv"
    /\ ws[c] = "open"
    /\ Len(utts) < MaxPrompts
    /\ External
    /\ LET role == conn[c].role
           o == translation_sessions[conn[c].sid]
           u == Len(utts) + 1
           absent == IF o = NoSession THEN TRUE
                     ELSE sessions[o][Peer(role)] = NoConn
       IN IF o = NoSession
          THEN /\ utts' = Append(utts, Utterance(c, o, absent, FALSE, "nosession"))
               /\ UNCHANGED <<pc, loc>>
          ELSE IF ~counterpart_attached(sessions, o, role)
          THEN /\ utts' = Append(utts, Utterance(c, o, absent, FALSE, "discarded"))
               /\ UNCHANGED <<pc, loc>>
          ELSE /\ utts' = Append(utts, Utterance(c, o, absent, TRUE, "flight"))
               /\ pc' = [pc EXCEPT ![c] = "prompt"]
               /\ loc' = [loc EXCEPT ![c] = [sess |-> o, utt |-> u]]
    /\ UNCHANGED <<config, clock, translation_sessions, sessions, conn,
                   ws, outbox, closeCalls, forms, attached, owed, nOther,
                   setups>>

TranslatePcs == {"prompt", "ready_src", "ready_tgt"}

\* acompletion or the iteration of its stream raises
TranslateFail(c) ==
    /\ pc[c] \in TranslatePcs
    /\ External
    /\ Apply(c, Raise(World, c))
    /\ IF pc[c] = "prompt"
       THEN utts' = [utts EXCEPT ![loc[c].utt].status = "adapter_failed"]
       ELSE UNCHANGED utts
    /\ UNCHANGED <<config, clock, conn, forms, attached, owed, nOther,
                   setups>>

\* the stream delivers a chunk: a token is yielded and forwarded (line 299)
StreamChunk(c, content) ==
    /\ pc[c] = "prompt"
    /\ Len(utts[loc[c].utt].emitted) < MaxChunks
    /\ content \in ChunkContents(Len(utts[loc[c].utt].emitted) + 1)
    /\ IF content = NoContent
       THEN UNCHANGED <<translation_sessions, sessions, ws, pc, loc, outbox,
                        closeCalls, utts>>
       ELSE LET u == loc[c].utt
                event == token_event(content, u)
                h == forward_handle(sessions, loc[c].sess, conn[c].role)
                r == send_json(World, h, event)
            IN IF r.ok
               THEN /\ Apply(c, [W |-> r.W, pc |-> "prompt", loc |-> loc[c]])
                    /\ utts' = [utts EXCEPT ![u].emitted = Append(@, event)]
               ELSE /\ Apply(c, Raise(r.W, c))
                    /\ utts' = [utts EXCEPT ![u].emitted = Append(@, event),
                                            ![u].status = "send_failed"]
    /\ UNCHANGED <<config, clock, conn, nEvents, forms, attached, owed,
                   nOther, setups>>

\* the stream ends: the generator yields its last event (lines 81-85)
StreamEnd(c) ==
    /\ pc[c] = "prompt"
    /\ LET o == loc[c].sess
           u == loc[c].utt
           event == final_event(u)
           h == forward_handle(sessions, o, conn[c].role)
           r == send_json(World, h, event)
       IN IF r.ok
          THEN /\ Apply(c, [W |-> r.W, pc |-> "prompt_music", loc |-> loc[c]])
               /\ utts' = [utts EXCEPT ![u].emitted = Append(@, event),
                                       ![u].status = "done"]
          ELSE /\ Apply(c, Raise(r.W, c))
               /\ utts' = [utts EXCEPT ![u].emitted = Append(@, event),
                                       ![u].status = "send_failed"]
    /\ UNCHANGED <<config, clock, conn, nEvents, forms, attached, owed,
                   nOther, setups>>

\* await session.source_websocket.send_json(music_event)  (source; mirrored)
SendMusic(c) ==
    /\ pc[c] = "prompt_music"
    /\ LET r == send_json(World, sessions[loc[c].sess][Own(conn[c].role)],
                          music_event(loc[c].utt))
       IN IF r.ok
          THEN Apply(c, [W |-> r.W, pc |-> "recv", loc |-> Idle])
          ELSE Apply(c, Raise(r.W, c))
    /\ UNCHANGED <<config, clock, conn, nEvents, observed>>

\* -------------------------------------------------------------------- spec
Next ==
    \/ \E now \in 0..MaxClock, f \in FromNumbers, g \in ToNumbers,
          lp \in LanguagePairs :
          InitiateCall(now, f, g, lp[1], lp[2])
    \/ \E role \in Roles, sid \in SessionIds : Connect(role, sid)
    \/ \E c \in Conns : PeerClose(c)
    \/ \E c \in Conns : RecvDisconnect(c)
    \/ \E c \in Conns : RecvBad(c)
    \/ \E c \in Conns, kind \in OtherKinds : RecvOther(c, kind)
    \/ \E c \in Conns : InterruptQueued(c)
    \/ \E c \in Conns, call_sid \in CallSids : RecvSetup(c, call_sid)
    \/ \E c \in Conns : RecvPrompt(c)
    \/ \E c \in Conns : GateResume(c)
    \/ \E c \in Conns : ReadyTranslated(c)
    \/ \E c \in Conns : TranslateFail(c)
    \/ \E c \in Conns, content \in {NoContent} \cup (1..MaxChunks) :
          StreamChunk(c, content)
    \/ \E c \in Conns : StreamEnd(c)
    \/ \E c \in Conns : SendMusic(c)
    \/ \E c \in Conns : CleanupStep(c)

Spec == Init /\ [][Next]_vars

\* Runs without faults from outside: the phone number is configured, one
\* call is requested, clients connect to the endpoints of its session only,
\* no client closes its connection, every message is well-formed and the
\* adapter never raises.  The server still closes connections itself, in
\* cleanup_session, and the task receiving on such a connection then gets
\* the disconnect.  More connections fit in such a run.
InitLegs ==
    /\ twilio_number = <<"+", "9">>
    /\ capacity = MaxLegConns
    /\ Empty

NextLegs ==
    \/ /\ sessions = <<>>
       /\ InitiateCall(0, <<"+", "1">>, <<"+", "2">>, "en-US", "ar-SA")
    \/ \E role \in Roles, sid \in SessionIds :
          translation_sessions[sid] # NoSession /\ Connect(role, sid)
    \/ \E c \in Conns : RecvDisconnect(c)
    \/ \E c \in Conns : RecvSetup(c, "CA1")
    \/ \E c \in Conns : RecvPrompt(c)
    \/ \E c \in Conns : GateResume(c)
    \/ \E c \in Conns : ReadyTranslated(c)
    \/ \E c \in Conns, content \in {NoContent} \cup (1..MaxChunks) :
          StreamChunk(c, content)
    \/ \E c \in Conns : StreamEnd(c)
    \/ \E c \in Conns : SendMusic(c)
    \/ \E c \in Conns : CleanupStep(c)

SpecLegs == InitLegs /\ [][NextLegs]_vars

\* ------------------------------------------------------------ properties
Range(f) == { f[i] : i \in 1..Len(f) }

Utts == 1..Len(utts)
Objects == 1..Len(sessions)

IsFragment(m, u) == m.type = "text" /\ m.utt = u
IsHold(m, u) == m.type = "play" /\ m.utt = u
IsEnd(m) == m.type = "end"

\* The fragments of prompt u delivered on connection d, in the order sent.
FragsOf(d, u) == SelectSeq(outbox[d], LAMBDA m : IsFragment(m, u))
HoldsOn(d, u) == Len(SelectSeq(outbox[d], LAMBDA m : IsHold(m, u)))
EndsOn(d) == Len(SelectSeq(outbox[d], IsEnd))
TerminalSent(u) == \E d \in Conns : \E i \in 1..Len(outbox[d]) :
                      IsFragment(outbox[d][i], u) /\ outbox[d][i].last

Registered(o) == translation_sessions[sessions[o].session_id] = o
BothAttached(o) ==
    sessions[o].source_websocket # NoConn /\ sessions[o].target_websocket # NoConn

\* No task has a step of its own left to take.
Quiescent ==
    \A c \in Conns : pc[c] = "done" \/ (pc[c] = "recv" /\ ws[c] = "open")

\* C1: each leg of a registered session has at most one live connection:
\* of the connections a setup attached to the same leg of the same session,
\* no two are open at once (the one attached earlier was closed).
C1_OneLiveConnectionPerLeg ==
    \A c, d \in Conns :
        (/\ c # d
         /\ attached[c] # NoSession
         /\ attached[c] = attached[d]
         /\ conn[c].role = conn[d].role
         /\ Registered(attached[c]))
        => ~(ws[c] = "open" /\ ws[d] = "open")

\* C2: a prompt received while the counterpart leg has no handle is dropped:
\* the adapter is never invoked for it and no message of it is ever sent on
\* any connection, also after the session has become active.
C2_AbsentPeerPromptDropped ==
    \A u \in Utts :
        utts[u].peerAbsent =>
            /\ ~utts[u].invoked
            /\ utts[u].emitted = <<>>
            /\ \A d \in Conns : \A i \in 1..Len(outbox[d]) : outbox[d][i].utt # u

C2_Witness ==
    \E u, v \in Utts :
        /\ u < v
        /\ utts[u].peerAbsent
        /\ utts[u].sess # NoSession
        /\ utts[v].sess = utts[u].sess
        /\ utts[v].status = "done"
        /\ BothAttached(utts[u].sess)

\* C3: the fragments of a prompt go to connections of the counterpart leg
\* only, each connection gets them unmodified and in the order the adapter
\* emitted them, and once the translation loop has completed every emitted
\* fragment was sent exactly once, the last of them being the one terminal
\* fragment (last = true, empty token).
C3_FragmentsForwardedInOrder ==
    \A u \in Utts :
        LET e == utts[u].emitted
            c == utts[u].conn
        IN /\ \A d \in Conns :
                 LET f == FragsOf(d, u) IN
                 /\ f # <<>> => /\ conn[d].role # conn[c].role
                                /\ conn[d].sid = conn[c].sid
                 /\ Len(f) = Cardinality(Range(f))
                 /\ f = SelectSeq(e, LAMBDA x : x \in Range(f))
           /\ utts[u].status = "done" =>
                 /\ \A i \in 1..Len(e) :
                       Cardinality({d \in Conns : e[i] \in Range(FragsOf(d, u))}) = 1
                 /\ Len(e) >= 1
                 /\ e[Len(e)].last /\ e[Len(e)].token = <<>>
                 /\ \A i \in 1..(Len(e) - 1) : ~e[i].last
                 /\ \E d \in Conns :
                       LET f == FragsOf(d, u) IN
                       f # <<>> /\ f[Len(f)] = e[Len(e)]

C3_Witness ==
    \E u \in Utts : \E d \in Conns :
        /\ utts[u].status = "done"
        /\ Len(utts[u].emitted) = 3
        /\ FragsOf(d, u) = utts[u].emitted

\* C4: teardown is idempotent under every interleaving: no connection is
\* sent the end message more than once and none is closed more than once.
C4_TeardownIdempotent ==
    \A d \in Conns : EndsOn(d) <= 1 /\ closeCalls[d] <= 1

\* C5: once every task has come to rest, a session that cleanup_session has
\* torn down is out of the registry and both its handle fields are cleared.
C5_TeardownClearsSession ==
    Quiescent =>
        \A c \in Conns :
            (pc[c] = "done" /\ loc[c].sess # NoSession) =>
                /\ ~Registered(loc[c].sess)
                /\ sessions[loc[c].sess].source_websocket = NoConn
                /\ sessions[loc[c].sess].target_websocket = NoConn

\* C6: when the adapter fails during the translation of a prompt, the step
\* drops that prompt only: registry, session records and everything sent
\* stay as they were, and the task goes back to receiving.
C6_AdapterFailureKeepsSession ==
    [][\A u \in Utts :
          (utts[u].status = "flight" /\ utts'[u].status = "adapter_failed") =>
              /\ translation_sessions' = translation_sessions
              /\ sessions' = sessions
              /\ outbox' = outbox
              /\ pc'[utts[u].conn] = "recv"]_vars

\* C7: a hold notification of a prompt is sent once, on the connection the
\* prompt came from, after the translation was requested and not after the
\* prompt's terminal fragment was forwarded.
C7_HoldNotAfterTerminal ==
    [][\A u \in Utts : \A d \in Conns :
          HoldsOn(d, u)' > HoldsOn(d, u) =>
              /\ d = utts[u].conn
              /\ utts[u].invoked
              /\ HoldsOn(d, u) = 0
              /\ ~TerminalSent(u)]_vars

\* C8: no two sessions ever created have the same identifier.
C8_SessionIdsUnique ==
    \A o1, o2 \in Objects :
        o1 # o2 => sessions[o1].session_id # sessions[o2].session_id

\* C9: the languages of every session are non-empty and are those its
\* request gave, whatever setup, prompt or teardown step has run since.
C9_LanguagesFixed ==
    \A o \in Objects :
        /\ sessions[o].source_language = forms[o][1]
        /\ sessions[o].target_language = forms[o][2]
        /\ sessions[o].source_language # ""
        /\ sessions[o].target_language # ""

C9_Witness ==
    \E c \in Conns : \E u \in Utts :
        /\ pc[c] = "done"
        /\ loc[c].sess # NoSession
        /\ utts[u].sess = loc[c].sess
        /\ utts[u].status = "done"

\* C10: when the target's transport closed during the translation of a
\* source prompt, then, once every task has come to rest, the connection
\* that was the source handle has been sent the end message (unless its own
\* transport went away) and the session is out of the registry, and the
\* closed target connection holds no fragment sent after its closing.
C10_TargetLossEndsSource ==
    Quiescent =>
        \A x \in owed :
            ws[x.src] # "peer_closed" =>
                /\ EndsOn(x.src) >= 1
                /\ ~Registered(x.sess)
                /\ Len(FragsOf(x.tgt, x.utt)) = x.sent

\* The prompt event the step has just received, if it received one.
NewUtt == Len(utts) + 1

\* The ready messages delivered on connection d.
ReadyOn(d) ==
    Len(SelectSeq(outbox[d], LAMBDA m : m.type = "text" /\ m.utt = 0))

\* C11: a prompt received on the attached leg of a session whose other leg
\* has no handle is not translated, and the step that receives it sends the
\* waiting notification on the connection it came from and leaves the task
\* receiving.
C11_HeldPromptGetsWaiting ==
    [][\A c \in Conns :
          (/\ Len(utts') = NewUtt
           /\ utts'[NewUtt].conn = c
           /\ utts'[NewUtt].sess # NoSession
           /\ utts'[NewUtt].peerAbsent
           /\ sessions[utts'[NewUtt].sess][Own(conn[c].role)] = c)
          => /\ ~utts'[NewUtt].invoked
             /\ outbox'[c] = Append(outbox[c], wait_event)
             /\ pc'[c] = "recv"]_vars

\* C12: no connection is ever sent the ready message more than once,
\* whatever setup events arrive and in whatever order.
C12_ReadySentOnce ==
    \A d \in Conns : ReadyOn(d) <= 1

\* C13: a setup handled while the counterpart leg has no handle leaves the
\* session registered with this connection attached, sends the waiting
\* notification on this connection and starts no teardown.
C13_FirstAttachWaitsOnOwnHandle ==
    [][\A c \in Conns :
          LET o == translation_sessions[conn[c].sid]
              role == conn[c].role
          IN (/\ Len(setups'[c]) > Len(setups[c])
              /\ o # NoSession
              /\ sessions[o][Peer(role)] = NoConn)
             => /\ translation_sessions'[conn[c].sid] = o
                /\ sessions'[o][Own(role)] = c
                /\ outbox'[c] = Append(outbox[c], wait_event)
                /\ pc'[c] \in {"recv", "gate_wait"}]_vars

\* C14: teardown clears a leg's handle only after it has called close() on
\* that connection, also when the end message could not be sent to it.
C14_CloseAttemptedAfterFailedEnd ==
    [][\A o \in Objects : \A role \in Roles :
          LET h == sessions[o][Own(role)] IN
          (h # NoConn /\ sessions'[o][Own(role)] = NoConn)
              => closeCalls'[h] >= 1]_vars

\* The step handles a setup event on connection c.
SetupOn(c) == Len(setups'[c]) > Len(setups[c])

CallSidField(role) ==
    IF role = "source" THEN "source_call_sid" ELSE "target_call_sid"

\* Two prompts that came in on the same leg of the same session.
SameLeg(u, v) ==
    /\ conn[utts[u].conn].role = conn[utts[v].conn].role
    /\ conn[utts[u].conn].sid = conn[utts[v].conn].sid

\* C15: prompts of one leg are relayed one after the other, in the order
\* they arrived: by the time a fragment of a later prompt has been sent, the
\* translation of every earlier prompt of that leg is over.
C15_SameLegInArrivalOrder ==
    \A u, v \in Utts :
        (/\ u < v
         /\ SameLeg(u, v)
         /\ \E d \in Conns : FragsOf(d, v) # <<>>)
        => utts[u].status # "flight"

\* C16: the dispatch of an info, interrupt, error or unknown event changes
\* neither the registry nor a session record, sends and closes nothing,
\* starts no teardown and leaves every task where it was, the receiving one
\* at its receive.
C16_OtherEventsChangeNothing ==
    [][nOther' # nOther =>
          /\ translation_sessions' = translation_sessions
          /\ sessions' = sessions
          /\ outbox' = outbox
          /\ ws' = ws
          /\ closeCalls' = closeCalls
          /\ pc' = pc
          /\ loc' = loc]_vars

C16_Witness ==
    /\ nOther >= 1
    /\ \E o \in Objects : Registered(o) /\ BothAttached(o)
    /\ \E u \in Utts : utts[u].status = "done"

\* C17: a setup handled for a session id that is not in the registry
\* creates a session under that id with the connection attached to it.
C17_SetupCreatesAbsentSession ==
    [][\A c \in Conns :
          (SetupOn(c) /\ translation_sessions[conn[c].sid] = NoSession)
          => /\ translation_sessions'[conn[c].sid] # NoSession
             /\ sessions'[translation_sessions'[conn[c].sid]][Own(conn[c].role)] = c
      ]_vars

\* C18: an interrupt that arrives on either leg while a prompt is being
\* translated does not end the translation: the task stays in its loop
\* until the stream is over, and when the loop has completed every fragment
\* up to the terminal one was forwarded.
C18_InterruptDoesNotCancel ==
    \A u \in Utts :
        utts[u].interrupted =>
            LET e == utts[u].emitted
                c == utts[u].conn
            IN /\ utts[u].status = "flight" =>
                     pc[c] = "prompt" /\ loc[c].utt = u
               /\ utts[u].status = "done" =>
                     /\ e # <<>> /\ e[Len(e)].last
                     /\ \A i \in 1..Len(e) :
                           \E d \in Conns : /\ conn[d].role # conn[c].role
                                            /\ e[i] \in Range(FragsOf(d, u))

C18_Witness ==
    \E u \in Utts :
        /\ utts[u].interrupted
        /\ utts[u].status = "done"
        /\ Len(utts[u].emitted) >= 2

\* C19: a setup handled for a registered session leaves the callSid it
\* carries in the session's field for that leg.
C19_SetupRecordsCallSid ==
    [][\A c \in Conns :
          LET o == translation_sessions[conn[c].sid] IN
          (SetupOn(c) /\ o # NoSession)
          => sessions'[o][CallSidField(conn[c].role)] =
                 setups'[c][Len(setups'[c])]]_vars

\* C20: a task whose connection is not a handle of the session registered
\* under its id and that leaves its receive loop does not remove that
\* session, and sends and closes nothing.
C20_OnlyAttachedConnectionTearsDown ==
    [][\A c \in Conns :
          LET o == translation_sessions[conn[c].sid] IN
          (/\ pc[c] = "recv"
           /\ pc'[c] \in CleanupPcs \cup {"done"}
           /\ o # NoSession
           /\ sessions[o].source_websocket # c
           /\ sessions[o].target_websocket # c)
          => /\ translation_sessions'[conn[c].sid] = o
             /\ sessions' = sessions
             /\ outbox' = outbox
             /\ closeCalls' = closeCalls]_vars

\* The i-th message delivered on d is a fragment of a translated prompt.
IsPromptFragment(d, i) == outbox[d][i].type = "text" /\ outbox[d][i].utt # 0

\* The i-th message delivered on d is a ready message.
IsReady(d, i) == outbox[d][i].type = "text" /\ outbox[d][i].utt = 0

\* C21: on every connection, a fragment of a translated prompt comes after
\* a ready message delivered on that connection.
C21_ReadyBeforeFragments ==
    \A d \in Conns : \A i \in 1..Len(outbox[d]) :
        IsPromptFragment(d, i) => \E j \in 1..(i - 1) : IsReady(d, j)

\* C22: whenever the handling of a prompt sends something, the session
\* field it sends on holds a handle: the counterpart's field when a
\* fragment is sent, the originating leg's when the hold notification is.
C22_SendsOnSetHandles ==
    [][\A u \in Utts :
          LET c == utts[u].conn
              o == utts[u].sess
          IN /\ Len(utts'[u].emitted) > Len(utts[u].emitted)
                    => sessions[o][Peer(conn[c].role)] # NoConn
             /\ (/\ pc[c] = "prompt_music"
                 /\ loc[c].utt = u
                 /\ pc'[c] # "prompt_music")
                    => sessions[o][Own(conn[c].role)] # NoConn]_vars

====
